---- MODULE Spec2Model ----
(***************************************************************************)
(* A model of mattors' axis aligned bounding box (geo/bbox.rs) and of its  *)
(* Voronoi renderers (art/voronoi.rs).                                     *)
(*                                                                         *)
(* Coordinates are PointU32's unsigned integers.  The width of the type is *)
(* CoordBits; sums are taken modulo 2^CoordBits where the build wraps and  *)
(* abort the program where the build checks for overflow.                  *)
(***************************************************************************)
EXTENDS Integers, Sequences, FiniteSets, TLC

\* Width in bits of the coordinate type (u32 scaled down so that TLC can
\* enumerate and add coordinates).
CoordBits == 6
\* Points one box is expanded by, the constructor's own included.
MaxConsumed == 4
\* Length of the point sequences handed to from_iter.
MaxIter == 3

\* Largest width and height of the image handed to the renderers.
MaxWidth == 2
MaxHeight == 2
\* Largest npoints handed to the renderers.
MaxPoints == 2

Panic == "panic"

Modulus == 2 ^ CoordBits
\* T::max_value() and T::min_value() of the unsigned coordinate type.
max_value == Modulus - 1
min_value == 0

VARIABLES
    overflow_checks, \* TRUE: the build panics on integer overflow (debug);
                     \* FALSE: it wraps (release)
    bbox,            \* the BoundingBox under test: [min, max]
    consumed,        \* the points bbox was expanded by since new(), in order
    last,            \* the last call made on bbox, its arguments and result
    panicked,        \* TRUE once an arithmetic overflow aborted the program
    mode,            \* the renderer called: "gradient" or "random"
    img,             \* the image: pixel <<x, y>> -> Rgb colour
    img0,            \* the image as it was when the renderer was called
    npoints,         \* the npoints argument
    color1,          \* gradient_voronoi's color1
    color2,          \* gradient_voronoi's color2
    random_points,   \* the points the sampler returned
    entries,         \* the (point, payload) vector handed to from_vector
    kdtree,          \* the KdTree the renderer built (`points` in the code)
    pending,         \* the pixels the renderer's loop has yet to visit, in
                     \* the order of enumerate_pixels_mut
    pc,              \* where the renderer is: "start", "loop" or "done"
    calls            \* how often the renderer called the sampler, the index
                     \* builder and nearest_neighbor

bboxVars == <<overflow_checks, bbox, consumed, last, panicked>>
voronoiVars == <<mode, img, img0, npoints, color1, color2, random_points,
                 entries, kdtree, pending, pc, calls>>
vars == <<bboxVars, voronoiVars>>

----------------------------------------------------------------------------
(* geo::Point *)

Point(x, y) == [x |-> x, y |-> y]

\* Point::lowest: the component-wise minimum.
lowest(p, q) ==
    Point(IF q.x < p.x THEN q.x ELSE p.x, IF q.y < p.y THEN q.y ELSE p.y)

\* Point::highest: the component-wise maximum.
highest(p, q) ==
    Point(IF q.x > p.x THEN q.x ELSE p.x, IF q.y > p.y THEN q.y ELSE p.y)

\* `a + b` on the coordinate type as a wrapping build computes it.
wrapping_add(a, b) == (a + b) % Modulus

\* Whether `a + b` leaves the coordinate type.
add_overflows(a, b) == a + b > max_value

----------------------------------------------------------------------------
(* geo::BoundingBox, as pure functions on box values *)

new == [min |-> Point(max_value, max_value), max |-> Point(min_value, min_value)]

\* expand_by_point with max overwritten by the point instead of raised to it.
expand_by_point_lastwins(b, pt) == [min |-> lowest(b.min, pt), max |-> pt]

\* expand_by_point with lowest and highest exchanged.
expand_by_point_swapped(b, pt) ==
    [min |-> highest(b.min, pt), max |-> lowest(b.max, pt)]

expand_by_point(b, pt) ==
    [min |-> lowest(b.min, pt), max |-> highest(b.max, pt)]

\* from_dimensions_and_origin with the width left out of the far corner.
from_dimensions_and_origin_nowidth(origin, width, height) ==
    LET b1 == expand_by_point(new, origin)
    IN  expand_by_point(b1, Point(origin.x, wrapping_add(origin.y, height)))

\* The box a build that wraps returns; a build that checks overflow returns
\* the same box when neither sum overflows and panics otherwise.
from_dimensions_and_origin(origin, width, height) ==
    LET b1 == expand_by_point(new, origin)
    IN  expand_by_point(b1, Point(wrapping_add(origin.x, width),
                                  wrapping_add(origin.y, height)))

from_dimensions_and_origin_overflows(origin, width, height) ==
    add_overflows(origin.x, width) \/ add_overflows(origin.y, height)

from_dimensions(width, height) ==
    from_dimensions_and_origin(Point(0, 0), width, height)

\* contains with the max end of both ranges exclusive.
contains_exclusive_max(b, pt) ==
    b.min.x <= pt.x /\ b.max.x > pt.x /\ b.min.y <= pt.y /\ b.max.y > pt.y

contains(b, pt) ==
    b.min.x <= pt.x /\ b.max.x >= pt.x /\ b.min.y <= pt.y /\ b.max.y >= pt.y

points(b) ==
    <<b.min, Point(b.max.x, b.min.y), b.max, Point(b.min.x, b.max.y)>>

center_overflows(b) ==
    add_overflows(b.min.x, b.max.x) \/ add_overflows(b.min.y, b.max.y)

\* The point a build that wraps returns.
center(b) ==
    Point(wrapping_add(b.min.x, b.max.x) \div 2,
          wrapping_add(b.min.y, b.max.y) \div 2)

RECURSIVE from_iter(_)
from_iter(pts) ==
    IF pts = <<>> THEN new
    ELSE expand_by_point(from_iter(SubSeq(pts, 1, Len(pts) - 1)), pts[Len(pts)])

----------------------------------------------------------------------------
(* geo::kdtree::KdTree over (point, payload) entries *)

Entry(pt, payload) == [point |-> pt, payload |-> payload]

Nil == [empty |-> TRUE]

\* The coordinate of pt on the splitting axis: 0 is x, 1 is y.
coord(pt, axis) == IF axis = 0 THEN pt.x ELSE pt.y

Front(s) == SubSeq(s, 1, Len(s) - 1)

\* A stable sort of the entries by their coordinate on the axis.
RECURSIVE sort_by_axis(_, _)
sort_by_axis(vector, axis) ==
    IF Len(vector) <= 1 THEN vector
    ELSE LET e == vector[Len(vector)]
             sorted == sort_by_axis(Front(vector), axis)
             before == {i \in 1 .. Len(sorted) :
                          \A j \in 1 .. i :
                             coord(sorted[j].point, axis) <= coord(e.point, axis)}
             n == Cardinality(before)
         IN  SubSeq(sorted, 1, n) \o <<e>> \o SubSeq(sorted, n + 1, Len(sorted))

RECURSIVE build(_, _)
build(vector, depth) ==
    IF vector = <<>> THEN Nil
    ELSE LET axis == depth % 2
             sorted == sort_by_axis(vector, axis)
             median == Len(sorted) \div 2 + 1
         IN  [empty |-> FALSE,
              point |-> sorted[median].point,
              payload |-> sorted[median].payload,
              axis |-> axis,
              left |-> build(SubSeq(sorted, 1, median - 1), depth + 1),
              right |-> build(SubSeq(sorted, median + 1, Len(sorted)),
                              depth + 1)]

from_vector(vector) == build(vector, 0)

squared_distance(p, q) ==
    (p.x - q.x) * (p.x - q.x) + (p.y - q.y) * (p.y - q.y)

None == [found |-> FALSE]

\* The search below node t for the entry nearest to q, best being the
\* nearest found so far.
RECURSIVE nearest(_, _, _)
nearest(t, q, best) ==
    IF t.empty THEN best
    ELSE LET d == squared_distance(t.point, q)
             here == IF ~best.found \/ d < best.dist
                     THEN [found |-> TRUE, point |-> t.point,
                           payload |-> t.payload, dist |-> d]
                     ELSE best
             on_left == coord(q, t.axis) < coord(t.point, t.axis)
             near == IF on_left THEN t.left ELSE t.right
             far == IF on_left THEN t.right ELSE t.left
             below == nearest(near, q, here)
             plane == coord(q, t.axis) - coord(t.point, t.axis)
         IN  IF plane * plane < below.dist
             THEN nearest(far, q, below)
             ELSE below

nearest_neighbor(t, q) == nearest(t, q, None)

----------------------------------------------------------------------------
(* art::generate_distinct_random_points: every sequence of n pairwise *)
(* distinct points of the box is a possible sample.                     *)

PointsIn(box) ==
    {pt \in {Point(x, y) : x \in box.min.x .. box.max.x,
                           y \in box.min.y .. box.max.y} : contains(box, pt)}

RECURSIVE generate_distinct_random_points(_, _)
generate_distinct_random_points(n, box) ==
    IF n = 0 THEN {<<>>}
    ELSE {Append(s, pt) :
            s \in generate_distinct_random_points(n - 1, box),
            pt \in PointsIn(box)}
         \ {Append(s, s[i]) :
              s \in generate_distinct_random_points(n - 1, box),
              i \in 1 .. (n - 1)}

----------------------------------------------------------------------------
(* art::voronoi *)

Rgb(r, g, b) == <<r, g, b>>

Pixels(image) == (0 .. image.width - 1) \X (0 .. image.height - 1)

\* image::RgbImage::enumerate_pixels_mut: the pixels <<x, y>> row by row.
enumerate_pixels_mut(image) ==
    [i \in 1 .. image.width * image.height |->
        <<(i - 1) % image.width, (i - 1) \div image.width>>]

\* `(num / den) as u8` for den > 0: the value truncated toward zero and
\* saturated to 0 .. 255.
as_u8(num, den) ==
    LET t == IF num >= 0 THEN num \div den ELSE -((-num) \div den)
    IN  IF t < 0 THEN 0 ELSE IF t > 255 THEN 255 ELSE t

\* The conversion rounding to the nearest integer instead of truncating.
as_u8_rounded(num, den) == as_u8(2 * num + den, 2 * den)

gradient_channel_rounded(c1, c2, closest_x, img_width) ==
    as_u8_rounded(c1 * img_width + closest_x * (c2 - c1), img_width)

\* (f64::from(c1) + c * d) as u8, with c = closest_x / img_width and
\* d = c2 - c1.  The f64 value is taken as the exact quotient
\* (c1 * img_width + closest_x * d) / img_width: for the widths up to 9 the
\* two truncate to the same integer for all channel values.
gradient_channel(c1, c2, closest_x, img_width) ==
    as_u8(c1 * img_width + closest_x * (c2 - c1), img_width)

\* The colour gradient_voronoi's loop writes to pixel px.
gradient_pixel(tree, c1, c2, img_width, px) ==
    LET closest_point == nearest_neighbor(tree, Point(px[1], px[2])).point
    IN  Rgb(gradient_channel(c1[1], c2[1], closest_point.x, img_width),
            gradient_channel(c1[2], c2[2], closest_point.x, img_width),
            gradient_channel(c1[3], c2[3], closest_point.x, img_width))

\* random_voronoi's loop writing the colour of the index's root entry.
random_pixel_root(tree, px) == tree.payload

\* The colour random_voronoi's loop writes to pixel px.
random_pixel(tree, px) ==
    nearest_neighbor(tree, Point(px[1], px[2])).payload

\* gradient_voronoi without its npoints == 0 return.
gradient_returns_early_never(n) == FALSE

gradient_returns_early(n) == n = 0

random_returns_early(n) == n = 0

NoCalls == [sampler |-> 0, from_vector |-> 0, nearest_neighbor |-> 0]

Unit == "()"

Black == Rgb(0, 0, 0)
White == Rgb(255, 255, 255)

\* <<color1, color2>>
GradientPairs ==
    {<<Black, White>>, <<White, Black>>,
     <<Rgb(10, 200, 77), Rgb(201, 9, 78)>>}

\* The colours random_color draws from.
Palette == {Rgb(250, 10, 10), Rgb(10, 10, 250)}

Image(w, h) ==
    [width |-> w, height |-> h,
     pix |-> [px \in (0 .. w - 1) \X (0 .. h - 1) |-> Rgb(px[1], px[2], 9)]]

VoronoiIdle ==
    /\ mode = "none"
    /\ img = Image(1, 1)
    /\ img0 = img
    /\ npoints = 0
    /\ color1 = Black
    /\ color2 = Black
    /\ random_points = <<>>
    /\ entries = <<>>
    /\ kdtree = Nil
    /\ pending = <<>>
    /\ pc = "done"
    /\ calls = NoCalls

----------------------------------------------------------------------------
(* The inputs the calls are made with *)

Origins ==
    {Point(0, 0), Point(3, 5), Point(2, 4), Point(max_value - 2, max_value)}

\* <<width, height>>
Dims == {<<7, 5>>, <<8, 6>>, <<0, 0>>, <<3, 1>>}

ExpandPts ==
    {Point(0, 0), Point(5, 7), Point(40, 40), Point(max_value, 1),
     Point(10, 3)}

QueryPts ==
    {Point(0, 0), Point(4, 0), Point(0, 8), Point(40, 40), Point(3, 5),
     Point(5, 7), Point(10, 10), Point(max_value, max_value)}

RECURSIVE SeqsUpTo(_, _)
SeqsUpTo(S, n) ==
    IF n = 0 THEN {<<>>}
    ELSE LET shorter == SeqsUpTo(S, n - 1)
         IN  shorter \cup {Append(s, e) : s \in shorter, e \in S}

----------------------------------------------------------------------------
(* The calls, as actions on the box under test *)

BBoxIdle ==
    /\ bbox = new
    /\ consumed = <<>>
    /\ last = [op |-> "new"]
    /\ panicked = FALSE

InitBBox ==
    /\ overflow_checks \in BOOLEAN
    /\ BBoxIdle
    /\ VoronoiIdle

\* Whether no box has been built yet in this run: the constructors below are
\* static functions, each run of the model builds one box with one of them
\* (New starts another run).
Fresh == bbox = new /\ consumed = <<>>

New ==
    /\ ~panicked
    /\ bbox' = new
    /\ consumed' = <<>>
    /\ last' = [op |-> "new"]
    /\ UNCHANGED <<overflow_checks, panicked, voronoiVars>>

FromDimensionsAndOrigin ==
    /\ ~panicked
    /\ Fresh
    /\ \E origin \in Origins, d \in Dims :
         LET call == [op |-> "from_dimensions_and_origin", origin |-> origin,
                      width |-> d[1], height |-> d[2]]
         IN  IF overflow_checks
                /\ from_dimensions_and_origin_overflows(origin, d[1], d[2])
             THEN /\ panicked' = TRUE
                  /\ last' = call
                  /\ UNCHANGED <<bbox, consumed>>
             ELSE /\ bbox' = from_dimensions_and_origin(origin, d[1], d[2])
                  /\ consumed' = <<origin,
                                   Point(wrapping_add(origin.x, d[1]),
                                         wrapping_add(origin.y, d[2]))>>
                  /\ last' = call
                  /\ UNCHANGED panicked
    /\ UNCHANGED <<overflow_checks, voronoiVars>>

FromDimensions ==
    /\ ~panicked
    /\ Fresh
    /\ \E d \in Dims :
         /\ bbox' = from_dimensions(d[1], d[2])
         /\ consumed' = <<Point(0, 0), Point(d[1], d[2])>>
         /\ last' = [op |-> "from_dimensions", width |-> d[1], height |-> d[2]]
    /\ UNCHANGED <<overflow_checks, panicked, voronoiVars>>

FromIter ==
    /\ ~panicked
    /\ Fresh
    /\ \E pts \in SeqsUpTo(ExpandPts, MaxIter) :
         /\ bbox' = from_iter(pts)
         /\ consumed' = pts
         /\ last' = [op |-> "from_iter", pts |-> pts]
    /\ UNCHANGED <<overflow_checks, panicked, voronoiVars>>

ExpandByPoint ==
    /\ ~panicked
    /\ Len(consumed) < MaxConsumed
    /\ \E pt \in ExpandPts :
         /\ bbox' = expand_by_point(bbox, pt)
         /\ consumed' = Append(consumed, pt)
         /\ last' = [op |-> "expand_by_point", pt |-> pt, before |-> bbox]
    /\ UNCHANGED <<overflow_checks, panicked, voronoiVars>>

Contains ==
    /\ ~panicked
    /\ \E pt \in QueryPts :
         last' = [op |-> "contains", pt |-> pt, ret |-> contains(bbox, pt)]
    /\ UNCHANGED <<overflow_checks, bbox, consumed, panicked, voronoiVars>>

Points ==
    /\ ~panicked
    /\ last' = [op |-> "points", ret |-> points(bbox)]
    /\ UNCHANGED <<overflow_checks, bbox, consumed, panicked, voronoiVars>>

Center ==
    /\ ~panicked
    /\ IF overflow_checks /\ center_overflows(bbox)
       THEN /\ panicked' = TRUE
            /\ last' = [op |-> "center", ret |-> Panic]
       ELSE /\ last' = [op |-> "center", ret |-> center(bbox)]
            /\ UNCHANGED panicked
    /\ UNCHANGED <<overflow_checks, bbox, consumed, voronoiVars>>

NextBBox ==
    \/ New
    \/ FromDimensionsAndOrigin
    \/ FromDimensions
    \/ FromIter
    \/ ExpandByPoint
    \/ Contains
    \/ Points
    \/ Center

Spec == InitBBox /\ [][NextBBox]_vars

----------------------------------------------------------------------------
(* The renderers: the call up to its loop, then one pixel of the loop per  *)
(* step.                                                                   *)

InitVoronoi ==
    /\ overflow_checks \in BOOLEAN
    /\ BBoxIdle
    /\ mode \in {"gradient", "random"}
    /\ \E w \in 1 .. MaxWidth, h \in 1 .. MaxHeight : img = Image(w, h)
    /\ img0 = img
    /\ npoints \in 0 .. MaxPoints
    /\ \E pair \in GradientPairs :
          /\ color1 = (IF mode = "gradient" THEN pair[1] ELSE Black)
          /\ color2 = (IF mode = "gradient" THEN pair[2] ELSE Black)
    /\ random_points = <<>>
    /\ entries = <<>>
    /\ kdtree = Nil
    /\ pending = <<>>
    /\ pc = "start"
    /\ calls = NoCalls

\* gradient_voronoi up to its loop.
GradientVoronoiStart ==
    /\ mode = "gradient"
    /\ pc = "start"
    /\ IF gradient_returns_early(npoints)
       THEN /\ pc' = "done"
            /\ UNCHANGED <<random_points, entries, kdtree, pending, calls>>
       ELSE \E sample \in generate_distinct_random_points(
                             npoints, from_dimensions(img.width, img.height)) :
              /\ random_points' = sample
              /\ entries' = [i \in 1 .. Len(sample) |-> Entry(sample[i], Unit)]
              /\ kdtree' = from_vector(entries')
              /\ pending' = enumerate_pixels_mut(img)
              /\ pc' = IF pending' = <<>> THEN "done" ELSE "loop"
              /\ calls' = [calls EXCEPT !.sampler = @ + 1,
                                        !.from_vector = @ + 1]
    /\ UNCHANGED <<bboxVars, mode, img, img0, npoints, color1, color2>>

\* One iteration of gradient_voronoi's loop.
GradientVoronoiPixel ==
    /\ mode = "gradient"
    /\ pc = "loop"
    /\ LET px == Head(pending) IN
         /\ calls' = [calls EXCEPT !.nearest_neighbor = @ + 1]
         /\ pending' = Tail(pending)
         /\ IF nearest_neighbor(kdtree, Point(px[1], px[2])).found
            THEN /\ img' = [img EXCEPT !.pix[px] =
                               gradient_pixel(kdtree, color1, color2,
                                              img.width, px)]
                 /\ pc' = IF pending' = <<>> THEN "done" ELSE "loop"
            ELSE /\ pc' = Panic
                 /\ UNCHANGED img
    /\ UNCHANGED <<bboxVars, mode, img0, npoints, color1, color2,
                   random_points, entries, kdtree>>

\* random_voronoi up to its loop.
RandomVoronoiStart ==
    /\ mode = "random"
    /\ pc = "start"
    /\ IF random_returns_early(npoints)
       THEN /\ pc' = "done"
            /\ UNCHANGED <<random_points, entries, kdtree, pending, calls>>
       ELSE \E sample \in generate_distinct_random_points(
                             npoints, from_dimensions(img.width, img.height)),
               colors \in [1 .. npoints -> Palette] :
              /\ random_points' = sample
              /\ entries' = [i \in 1 .. Len(sample) |->
                               Entry(sample[i], colors[i])]
              /\ kdtree' = from_vector(entries')
              /\ pending' = enumerate_pixels_mut(img)
              /\ pc' = IF pending' = <<>> THEN "done" ELSE "loop"
              /\ calls' = [calls EXCEPT !.sampler = @ + 1,
                                        !.from_vector = @ + 1]
    /\ UNCHANGED <<bboxVars, mode, img, img0, npoints, color1, color2>>

\* One iteration of random_voronoi's loop.
RandomVoronoiPixel ==
    /\ mode = "random"
    /\ pc = "loop"
    /\ LET px == Head(pending) IN
         /\ calls' = [calls EXCEPT !.nearest_neighbor = @ + 1]
         /\ pending' = Tail(pending)
         /\ IF nearest_neighbor(kdtree, Point(px[1], px[2])).found
            THEN /\ img' = [img EXCEPT !.pix[px] = random_pixel(kdtree, px)]
                 /\ pc' = IF pending' = <<>> THEN "done" ELSE "loop"
            ELSE /\ pc' = Panic
                 /\ UNCHANGED img
    /\ UNCHANGED <<bboxVars, mode, img0, npoints, color1, color2,
                   random_points, entries, kdtree>>

NextVoronoi ==
    \/ GradientVoronoiStart
    \/ GradientVoronoiPixel
    \/ RandomVoronoiStart
    \/ RandomVoronoiPixel

SpecVoronoi == InitVoronoi /\ [][NextVoronoi]_vars

----------------------------------------------------------------------------
(* Properties of BoundingBox *)

TestBoxPts == <<Point(3, 5), Point(10, 10)>>

\* C1: contains(pt) is true exactly when min.x <= pt.x <= max.x and
\* min.y <= pt.y <= max.y, both ends inclusive; on the box
\* from_dimensions_and_origin((3,5), 7, 5) the points (3,5), (5,7), (10,10)
\* are contained and (0,0), (4,0), (0,8), (40,40) are not.
ContainsIsInclusiveRange ==
    last.op = "contains" =>
        /\ last.ret = TRUE <=>
              (/\ last.pt.x \in bbox.min.x .. bbox.max.x
               /\ last.pt.y \in bbox.min.y .. bbox.max.y)
        /\ consumed = TestBoxPts =>
              /\ last.pt \in {Point(3, 5), Point(5, 7), Point(10, 10)}
                    => last.ret = TRUE
              /\ last.pt \in {Point(0, 0), Point(4, 0), Point(0, 8),
                              Point(40, 40)} => last.ret = FALSE

ContainsMaxCornerOfTestBox ==
    /\ last.op = "contains"
    /\ consumed = TestBoxPts
    /\ last.pt = Point(10, 10)
    /\ last.ret = TRUE

\* C2: when origin.x + width and origin.y + height are representable,
\* from_dimensions_and_origin(origin, width, height) spans exactly
\* [origin, origin + (width, height)] and points() lists its corners
\* clockwise from min.
FromDimensionsAndOriginSpans ==
    /\ (/\ last.op = "from_dimensions_and_origin"
        /\ ~from_dimensions_and_origin_overflows(last.origin, last.width,
                                                 last.height))
       => LET o == last.origin
              w == last.width
              h == last.height
          IN  /\ ~panicked
              /\ bbox.min = o
              /\ bbox.max = Point(o.x + w, o.y + h)
              /\ points(bbox) = <<Point(o.x, o.y), Point(o.x + w, o.y),
                                  Point(o.x + w, o.y + h), Point(o.x, o.y + h)>>
    /\ last.op = "points" =>
          last.ret = <<bbox.min, Point(bbox.max.x, bbox.min.y), bbox.max,
                       Point(bbox.min.x, bbox.max.y)>>

FromDimensionsAndOriginOfTestBox ==
    /\ last.op = "from_dimensions_and_origin"
    /\ last.origin = Point(3, 5)
    /\ last.width = 7
    /\ last.height = 5
    /\ points(bbox) = <<Point(3, 5), Point(10, 5), Point(10, 10), Point(3, 10)>>

\* C3: on a non-empty box center() returns the truncating midpoint of the
\* true sums, floor((min.x + max.x) / 2) and floor((min.y + max.y) / 2), for
\* all coordinates of the type.
CenterIsTrueMidpoint ==
    (last.op = "center" /\ consumed # <<>>) =>
        /\ ~panicked
        /\ last.ret = Point((bbox.min.x + bbox.max.x) \div 2,
                            (bbox.min.y + bbox.max.y) \div 2)

Permuted(s, p) == [i \in 1 .. Len(s) |-> s[p[i]]]

\* C4: folding expand_by_point from new() over any permutation of the points
\* consumed so far (from_iter) gives the box the calls made so far gave.
OrderIndependent ==
    \A p \in Permutations(1 .. Len(consumed)) :
        from_iter(Permuted(consumed, p)) = bbox

FromIterOfThreeUnordered ==
    /\ last.op = "from_iter"
    /\ Len(consumed) = 3
    /\ consumed[3] # bbox.max
    /\ consumed[1] # bbox.min
    /\ consumed[1] # consumed[2]

\* C8: an overflow of origin.x + width or origin.y + height in
\* from_dimensions_and_origin is surfaced as an error: no box with a wrapped
\* max corner is returned.
OverflowSurfacedAsError ==
    (/\ last.op = "from_dimensions_and_origin"
     /\ from_dimensions_and_origin_overflows(last.origin, last.width,
                                             last.height))
    => panicked

\* C9 as stated: the four points() of every reachable box, the empty box
\* new() included, satisfy contains.
CornersContained ==
    \A i \in 1 .. 4 : contains(bbox, points(bbox)[i])

\* C9 amended: the four points() of every box that was expanded by at least
\* one point satisfy contains.
CornersContainedWhenNonEmpty ==
    consumed # <<>> => \A i \in 1 .. 4 : contains(bbox, points(bbox)[i])

PointsOfProperBox ==
    /\ last.op = "points"
    /\ consumed # <<>>
    /\ bbox.min.x < bbox.max.x
    /\ bbox.min.y < bbox.max.y
    /\ \A i \in 1 .. 4 : contains(bbox, last.ret[i])

Probes == QueryPts \cup ExpandPts

\* C10: once expanded by a point the box has min.x <= max.x and
\* min.y <= max.y, and expand_by_point only grows it: min never increases,
\* max never decreases, and every point contained before is contained after.
ExpandOnlyGrows ==
    /\ consumed # <<>> =>
          bbox.min.x <= bbox.max.x /\ bbox.min.y <= bbox.max.y
    /\ last.op = "expand_by_point" =>
          /\ bbox.min.x <= last.before.min.x
          /\ bbox.min.y <= last.before.min.y
          /\ bbox.max.x >= last.before.max.x
          /\ bbox.max.y >= last.before.max.y
          /\ \A q \in Probes :
                contains(last.before, q) => contains(bbox, q)

ExpandGrewNonEmptyBox ==
    /\ last.op = "expand_by_point"
    /\ last.before # new
    /\ bbox.max.x > last.before.max.x
    /\ bbox.min.y < last.before.min.y
    /\ \E q \in Probes : contains(last.before, q)

----------------------------------------------------------------------------
(* Properties of the renderers *)

\* C5: called with npoints = 0, gradient_voronoi and random_voronoi leave
\* every pixel unchanged, sample no point, build no index and issue no
\* nearest-neighbour query, and return without an error.
ZeroPointsIsNoOp ==
    (mode \in {"gradient", "random"} /\ npoints = 0) =>
        /\ img = img0
        /\ calls = NoCalls
        /\ random_points = <<>>
        /\ kdtree = Nil
        /\ pc \in {"start", "done"}

ZeroPointsReturned ==
    /\ mode \in {"gradient", "random"}
    /\ npoints = 0
    /\ pc = "done"
    /\ img = img0
    /\ Pixels(img) # {}

\* Whether seed i is one of the seeds nearest to pixel px.
IsNearestSeed(i, px) ==
    \A j \in 1 .. Len(random_points) :
        squared_distance(random_points[i], Point(px[1], px[2]))
            <= squared_distance(random_points[j], Point(px[1], px[2]))

Visited == Pixels(img) \ {pending[i] : i \in 1 .. Len(pending)}

\* C6: after random_voronoi with npoints >= 1 every pixel holds the stored
\* colour of a seed at minimal squared distance from it (each pixel as soon
\* as the loop has visited it, the others still untouched); with
\* npoints = 1 all pixels hold one colour.
RandomPixelsHoldNearestSeedColour ==
    (mode = "random" /\ npoints >= 1 /\ pc \in {"loop", "done"}) =>
        /\ pc = "done" => Visited = Pixels(img)
        /\ \A px \in Visited :
              \E i \in 1 .. npoints :
                  /\ IsNearestSeed(i, px)
                  /\ img.pix[px] = entries[i].payload
        /\ \A px \in Pixels(img) \ Visited : img.pix[px] = img0.pix[px]
        /\ (npoints = 1 /\ pc = "done") =>
              \A px, py \in Pixels(img) : img.pix[px] = img.pix[py]

RandomDoneWithTwoCells ==
    /\ mode = "random"
    /\ pc = "done"
    /\ npoints = 2
    /\ \E px, py \in Pixels(img) : img.pix[px] # img.pix[py]
    /\ \E px \in Pixels(img) : img.pix[px] # kdtree.payload

\* The truncation to 8 bits of c1 + (sx / w) * (c2 - c1): the v in 0 .. 255
\* with v <= c1 + sx * (c2 - c1) / w < v + 1.
IsTruncatedGradient(v, c1, c2, sx, w) ==
    /\ v \in 0 .. 255
    /\ v * w <= c1 * w + sx * (c2 - c1)
    /\ c1 * w + sx * (c2 - c1) < (v + 1) * w

====
